---- MODULE Spec2Model ----
(***************************************************************************)
(* Model of website-monitor (monitor.js): one process invocation loads the *)
(* two persisted documents, probes every URL of SITES concurrently, runs   *)
(* the transition loop of run(results), prunes and writes the documents    *)
(* and the reports back, and signals the run outcome by its exit code.     *)
(* The persisted documents are the only state shared between invocations.  *)
(***************************************************************************)
EXTENDS Integers, Sequences, FiniteSets, TLC

VARIABLES
    sites,              \* SITES of the invocation in progress (monitor.js:4)
    stateDoc,           \* site_state.json on disk
    downSinceDoc,       \* down_since.json on disk
    recoveryReportDoc,  \* recovery_report.json on disk
    slowAlertReportDoc, \* slow_alert_report.json on disk
    clock,              \* wall clock in ms, as last read by new Date()
    pc,                 \* position of the process
    previousState,      \* module-level previousState (mutated by run)
    downSince,          \* module-level downSince (mutated by run)
    probes,             \* the promises of urls.map(checkOne)
    results,            \* the array handed to run()
    now,                \* run(): const now
    checkedUrls,        \* run(): const checkedUrls
    idx,                \* run(): position of the for..of loop
    hasDown,            \* run(): let hasDown
    alerts,             \* run(): let alerts
    recoveries,         \* run(): const recoveries
    slowAlerts,         \* run(): const slowAlerts
    prunedState,        \* run(): const prunedState
    prunedDownSince,    \* run(): const prunedDownSince
    stderr,             \* lines written by console.error in this invocation
    exitCode,           \* exit code of the finished process, -1 while running
    prevSnapshot,       \* history: previousState as loaded at start-up
    prevDownSince,      \* history: downSince as loaded at start-up
    lastRunDown,        \* history: URLs Down in the run whose snapshot was loaded
    lastRunStatus,      \* history: URL -> status in the run before this one
    loadedKinds,        \* history: kinds of the two documents found at start-up
    fetched,            \* history: what fetch did for each probe
    settleOrder,        \* history: order in which the probes settled
    call,               \* argument of a function applied on its own
    ret,                \* its returned value
    runs,               \* number of invocations launched so far
    faults              \* number of document losses/corruptions so far

vars == <<sites, stateDoc, downSinceDoc, recoveryReportDoc, slowAlertReportDoc,
          clock, pc, previousState, downSince, probes, results, now,
          checkedUrls, idx, hasDown, alerts, recoveries, slowAlerts,
          prunedState, prunedDownSince, stderr, exitCode, prevSnapshot,
          prevDownSince, lastRunDown, lastRunStatus, loadedKinds, fetched,
          settleOrder, call, ret, runs, faults>>

(***************************************************************************)
(* Bounds of the model.                                                    *)
(***************************************************************************)
MaxRuns == 3
MaxFaults == 1
StepMs == 45000

Urls == {"A", "B"}
Gaps == {StepMs}
Latencies == {2000, 2500}
HttpCodes == {500}
ErrorMessages == {"ECONNREFUSED", "getaddrinfo ENOTFOUND"}

(***************************************************************************)
(* Program constants.                                                      *)
(***************************************************************************)
TIMEOUT == 10000
SLOW_THRESHOLD == 2000

(***************************************************************************)
(* JavaScript objects used as maps: a function whose DOMAIN is the set of  *)
(* own keys; obj[k] of a missing key is undefined.                         *)
(***************************************************************************)
EmptyMap == [u \in {} |-> "none"]

Has(m, u) == u \in DOMAIN m

Put(m, u, v) == [x \in (DOMAIN m) \cup {u} |-> IF x = u THEN v ELSE m[x]]

Delete(m, u) == [x \in (DOMAIN m) \ {u} |-> m[x]]

\* prev === s, where prev = previousState[url] may be undefined
PrevIs(m, u, s) == Has(m, u) /\ m[u] = s

(***************************************************************************)
(* Time stamps.  Date.toISOString keeps the millisecond; formatIST renders *)
(* a date to the second in Asia/Kolkata.                                   *)
(***************************************************************************)
toISOString(ms) == [iso |-> ms]

getTime(isoStr) == isoStr.iso

formatIST(isoStr) == [ist |-> getTime(isoStr) \div 1000]

\* variant of Plural: singular for every count below two
Plural_BelowTwo(n) == IF n > 1 THEN "s" ELSE ""

Plural(n) == IF n # 1 THEN "s" ELSE ""

formatDuration(ms) ==
    LET sec == ms \div 1000
        min == sec \div 60
    IN  IF min >= 1
        THEN LET s == sec % 60
             IN  IF s > 0
                 THEN ToString(min) \o " minute" \o Plural(min) \o " and "
                        \o ToString(s) \o " second" \o Plural(s)
                 ELSE ToString(min) \o " minute" \o Plural(min)
        ELSE ToString(sec) \o " second" \o Plural(sec)

(***************************************************************************)
(* Documents on disk.  A document is missing, unparseable, parseable to a  *)
(* non-object, or an object.                                               *)
(***************************************************************************)
DocKinds == {"missing", "corrupt", "nonobject", "object"}

BadKinds == DocKinds \ {"object"}

ObjectDoc(m) == [kind |-> "object", map |-> m]

BadDoc(k) == [kind |-> k, map |-> EmptyMap]

\* the guarded JSON.parse of the start-up code
LoadDoc(doc) == IF doc.kind = "object" THEN doc.map ELSE EmptyMap

RECURSIVE SeqsOver(_, _)
SeqsOver(S, n) ==
    IF n = 0 THEN {<<>>}
    ELSE LET shorter == SeqsOver(S, n - 1)
         IN  shorter \cup
             {Append(s, u) : s \in {t \in shorter : Len(t) = n - 1}, u \in S}

Range(s) == {s[i] : i \in 1..Len(s)}

\* the lists SITES can be edited to: distinct URLs, kept in one order
SiteLists == {s \in SeqsOver(Urls, Cardinality(Urls)) :
                Cardinality(Range(s)) = Len(s) /\ s # <<"B", "A">>}

(***************************************************************************)
(* checkOne: classification of what fetch did.  The probes of a run end in *)
(* a response or in the abort of the timer; the catch branch for any other *)
(* error is exercised on ProbeInputs.                                      *)
(***************************************************************************)
FetchOutcomes ==
    [kind : {"ok"}, elapsed : Latencies, code : {200}, message : {""}]
    \cup [kind : {"http"}, elapsed : {120}, code : HttpCodes, message : {""}]
    \cup [kind : {"abort"}, elapsed : {TIMEOUT}, code : {0}, message : {""}]

\* variant of checkOne: a latency equal to the threshold counts as slow
checkOne_AtThreshold(url, f) ==
    LET timeMs == f.elapsed
    IN  IF f.kind \in {"ok", "http"}
        THEN IF f.kind = "http"
             THEN [url |-> url, status |-> "down",
                   reason |-> "HTTP " \o ToString(f.code), timeMs |-> timeMs]
             ELSE IF timeMs >= SLOW_THRESHOLD
             THEN [url |-> url, status |-> "slow",
                   reason |-> "Slow (" \o ToString(timeMs) \o "ms)",
                   timeMs |-> timeMs]
             ELSE [url |-> url, status |-> "up", reason |-> "null",
                   timeMs |-> timeMs]
        ELSE [url |-> url, status |-> "down",
              reason |-> IF f.kind = "abort" THEN "Timeout" ELSE f.message,
              timeMs |-> timeMs]

checkOne(url, f) ==
    LET timeMs == f.elapsed
    IN  IF f.kind \in {"ok", "http"}
        THEN IF f.kind = "http"
             THEN [url |-> url, status |-> "down",
                   reason |-> "HTTP " \o ToString(f.code), timeMs |-> timeMs]
             ELSE IF timeMs > SLOW_THRESHOLD
             THEN [url |-> url, status |-> "slow",
                   reason |-> "Slow (" \o ToString(timeMs) \o "ms)",
                   timeMs |-> timeMs]
             ELSE [url |-> url, status |-> "up", reason |-> "null",
                   timeMs |-> timeMs]
        ELSE [url |-> url, status |-> "down",
              reason |-> IF f.kind = "abort" THEN "Timeout" ELSE f.message,
              timeMs |-> timeMs]

\* no fetch outcome yet
NoFetch == [kind |-> "none", elapsed |-> 0, code |-> 0, message |-> ""]

\* no function under test applied
NoCall == [fn |-> "none"]

Pending(url) == [url |-> url, status |-> "pending", reason |-> "", timeMs |-> 0]

(***************************************************************************)
(* Initial state: nothing persisted, no process running.                   *)
(***************************************************************************)
ProgramInit ==
    /\ sites = <<>>
    /\ stateDoc = BadDoc("missing")
    /\ downSinceDoc = BadDoc("missing")
    /\ recoveryReportDoc = BadDoc("missing")
    /\ slowAlertReportDoc = BadDoc("missing")
    /\ clock = 0
    /\ pc = "idle"
    /\ previousState = EmptyMap
    /\ downSince = EmptyMap
    /\ probes = <<>>
    /\ results = <<>>
    /\ now = 0
    /\ checkedUrls = {}
    /\ idx = 0
    /\ hasDown = FALSE
    /\ alerts = <<>>
    /\ recoveries = <<>>
    /\ slowAlerts = <<>>
    /\ prunedState = EmptyMap
    /\ prunedDownSince = EmptyMap
    /\ stderr = <<>>
    /\ exitCode = -1
    /\ prevSnapshot = EmptyMap
    /\ prevDownSince = EmptyMap
    /\ lastRunDown = {}
    /\ lastRunStatus = EmptyMap
    /\ loadedKinds = [state |-> "missing", downSince |-> "missing"]
    /\ fetched = <<>>
    /\ settleOrder = <<>>
    /\ runs = 0
    /\ faults = 0

Init ==
    /\ ProgramInit
    /\ call = NoCall
    /\ ret = NoCall

diskVars == <<stateDoc, downSinceDoc, recoveryReportDoc, slowAlertReportDoc>>
runLocals == <<now, checkedUrls, idx, hasDown, alerts, recoveries, slowAlerts,
               prunedState, prunedDownSince>>
history == <<prevSnapshot, prevDownSince, lastRunDown, lastRunStatus,
             loadedKinds>>
pureVars == <<call, ret>>
progVars == <<sites, diskVars, clock, pc, previousState, downSince, probes,
              results, runLocals, stderr, exitCode, history, fetched,
              settleOrder, runs, faults>>

(***************************************************************************)
(* Between invocations: a persisted document is lost or damaged.           *)
(***************************************************************************)
StateDocFault ==
    /\ pc = "idle"
    /\ faults < MaxFaults
    /\ \E k \in BadKinds : stateDoc' = BadDoc(k)
    /\ faults' = faults + 1
    /\ UNCHANGED <<pureVars, fetched, settleOrder, sites, downSinceDoc,
                   recoveryReportDoc, slowAlertReportDoc, clock, pc,
                   previousState, downSince, probes, results, runLocals,
                   stderr, exitCode, history, runs>>

DownSinceDocFault ==
    /\ pc = "idle"
    /\ faults < MaxFaults
    /\ \E k \in BadKinds : downSinceDoc' = BadDoc(k)
    /\ faults' = faults + 1
    /\ UNCHANGED <<pureVars, fetched, settleOrder, sites, stateDoc,
                   recoveryReportDoc, slowAlertReportDoc, clock, pc,
                   previousState, downSince, probes, results, runLocals,
                   stderr, exitCode, history, runs>>

(***************************************************************************)
(* Start of an invocation: module start-up code up to the call of          *)
(* checkSites.                                                             *)
(***************************************************************************)
Launch ==
    /\ pc = "idle"
    /\ runs < MaxRuns
    /\ runs' = runs + 1
    /\ \E s \in SiteLists : sites' = s
    /\ previousState' = LoadDoc(stateDoc)
    /\ downSince' = LoadDoc(downSinceDoc)
    /\ prevSnapshot' = LoadDoc(stateDoc)
    /\ prevDownSince' = LoadDoc(downSinceDoc)
    /\ lastRunDown' = IF stateDoc.kind = "object" THEN lastRunDown ELSE {}
    /\ probes' = <<>>
    /\ results' = <<>>
    /\ now' = 0
    /\ checkedUrls' = {}
    /\ idx' = 0
    /\ hasDown' = FALSE
    /\ alerts' = <<>>
    /\ recoveries' = <<>>
    /\ slowAlerts' = <<>>
    /\ prunedState' = EmptyMap
    /\ prunedDownSince' = EmptyMap
    /\ stderr' = <<>>
    /\ exitCode' = -1
    /\ pc' = "checkSites"
    /\ lastRunStatus' = IF stateDoc.kind = "object" THEN lastRunStatus
                        ELSE EmptyMap
    /\ loadedKinds' = [state |-> stateDoc.kind, downSince |-> downSinceDoc.kind]
    /\ fetched' = <<>>
    /\ settleOrder' = <<>>
    /\ UNCHANGED <<pureVars, diskVars, clock, faults>>

(***************************************************************************)
(* checkSites: urls.map(checkOne) starts every probe, Promise.all joins.   *)
(***************************************************************************)
FanOut ==
    /\ pc = "checkSites"
    /\ probes' = [i \in 1..Len(sites) |-> Pending(sites[i])]
    /\ fetched' = [i \in 1..Len(sites) |-> NoFetch]
    /\ pc' = "awaitAll"
    /\ UNCHANGED <<pureVars, settleOrder, sites, diskVars, clock,
                   previousState, downSince, results, runLocals, stderr,
                   exitCode, history, runs, faults>>

\* variant of ProbeSettleAt: the probes are awaited one after the other
ProbeSettleAt_InTurn(i) ==
    /\ pc = "awaitAll"
    /\ i \in 1..Len(probes)
    /\ probes[i].status = "pending"
    /\ \A j \in 1..(i - 1) : probes[j].status # "pending"
    /\ \E f \in FetchOutcomes :
          /\ probes' = [probes EXCEPT ![i] = checkOne(probes[i].url, f)]
          /\ fetched' = [fetched EXCEPT ![i] = f]
    /\ settleOrder' = Append(settleOrder, i)
    /\ UNCHANGED <<pureVars, sites, diskVars, clock, pc, previousState,
                   downSince, results, runLocals, stderr, exitCode, history,
                   runs, faults>>

\* the i-th promise settles, whatever the state of the others
ProbeSettleAt(i) ==
    /\ pc = "awaitAll"
    /\ i \in 1..Len(probes)
    /\ probes[i].status = "pending"
    /\ \E f \in FetchOutcomes :
          /\ probes' = [probes EXCEPT ![i] = checkOne(probes[i].url, f)]
          /\ fetched' = [fetched EXCEPT ![i] = f]
    /\ settleOrder' = Append(settleOrder, i)
    /\ UNCHANGED <<pureVars, sites, diskVars, clock, pc, previousState,
                   downSince, results, runLocals, stderr, exitCode, history,
                   runs, faults>>

ProbeSettle == \E i \in 1..Len(sites) : ProbeSettleAt(i)

\* variant of Join: the results are collected in the order of completion
Join_CompletionOrder ==
    /\ pc = "awaitAll"
    /\ \A i \in 1..Len(probes) : probes[i].status # "pending"
    /\ results' = [k \in 1..Len(probes) |-> probes[settleOrder[k]]]
    /\ pc' = "run"
    /\ UNCHANGED <<pureVars, fetched, settleOrder, sites, diskVars, clock,
                   previousState, downSince, probes, runLocals, stderr,
                   exitCode, history, runs, faults>>

Join ==
    /\ pc = "awaitAll"
    /\ \A i \in 1..Len(probes) : probes[i].status # "pending"
    /\ results' = probes
    /\ pc' = "run"
    /\ UNCHANGED <<pureVars, fetched, settleOrder, sites, diskVars, clock,
                   previousState, downSince, probes, runLocals, stderr,
                   exitCode, history, runs, faults>>

(***************************************************************************)
(* run(results): declarations before the loop.                             *)
(***************************************************************************)
RunBegin ==
    /\ pc = "run"
    /\ \E g \in Gaps : clock' = clock + g
    /\ now' = clock'
    /\ checkedUrls' = {results[i].url : i \in 1..Len(results)}
    /\ hasDown' = FALSE
    /\ alerts' = <<>>
    /\ recoveries' = <<>>
    /\ slowAlerts' = <<>>
    /\ idx' = 1
    /\ settleOrder' = <<>>
    /\ pc' = "loop"
    /\ UNCHANGED <<pureVars, fetched, sites, diskVars, previousState,
                   downSince, probes, results, prunedState, prunedDownSince,
                   stderr, exitCode, history, runs, faults>>

(***************************************************************************)
(* The lines pushed to alerts, as records: kind is the word after the      *)
(* emoji, detail the text in parentheses.                                  *)
(***************************************************************************)
Ms(timeMs) == ToString(timeMs) \o "ms"

RecoveredLine(r) == [kind |-> "RECOVERED", url |-> r.url, detail |-> Ms(r.timeMs)]

BackToNormalLine(r) ==
    [kind |-> "Back to normal", url |-> r.url,
     detail |-> "was slow, now " \o Ms(r.timeMs)]

SlowLine(r) == [kind |-> "SLOW", url |-> r.url, detail |-> Ms(r.timeMs)]

DownLine(r) == [kind |-> "DOWN", url |-> r.url, detail |-> r.reason]

\* variant of DownRecovery: the operands of the subtraction are swapped
DownRecovery_Swapped(r, ds, t) ==
    LET startMs == getTime(ds[r.url])
        durationMs == startMs - t
    IN  [url |-> r.url,
         recoveredFrom |-> "down",
         incidentStartedAt |-> formatIST(ds[r.url]),
         resolvedAt |-> formatIST(toISOString(t)),
         durationMs |-> durationMs,
         durationText |-> formatDuration(durationMs)]

DownRecovery(r, ds, t) ==
    LET startMs == getTime(ds[r.url])
        durationMs == t - startMs
    IN  [url |-> r.url,
         recoveredFrom |-> "down",
         incidentStartedAt |-> formatIST(ds[r.url]),
         resolvedAt |-> formatIST(toISOString(t)),
         durationMs |-> durationMs,
         durationText |-> formatDuration(durationMs)]

\* variant of SlowRecovery: the record carries a duration
SlowRecovery_WithDuration(r, t) ==
    [url |-> r.url, recoveredFrom |-> "slow",
     resolvedAt |-> formatIST(toISOString(t)),
     durationMs |-> 0]

SlowRecovery(r, t) ==
    [url |-> r.url, recoveredFrom |-> "slow",
     resolvedAt |-> formatIST(toISOString(t))]

SlowAlert(r, t) ==
    [url |-> r.url, timeMs |-> r.timeMs,
     detectedAt |-> formatIST(toISOString(t))]

(***************************************************************************)
(* One iteration of the for..of loop of run().                            *)
(***************************************************************************)
\* variant of UpBranch: any previous status other than "up", undefined
\* included, counts as a return to normal
UpBranch_FirstSight(r) ==
    LET wasDown == PrevIs(previousState, r.url, "down") /\ Has(downSince, r.url)
        wasSlow == ~PrevIs(previousState, r.url, "up")
                   /\ ~PrevIs(previousState, r.url, "down")
        rec1 == IF wasDown
                THEN Append(recoveries, DownRecovery(r, downSince, now))
                ELSE recoveries
        al1 == IF wasDown THEN Append(alerts, RecoveredLine(r)) ELSE alerts
    IN  /\ downSince' = IF wasDown THEN Delete(downSince, r.url) ELSE downSince
        /\ recoveries' = IF wasSlow THEN Append(rec1, SlowRecovery(r, now))
                         ELSE rec1
        /\ alerts' = IF wasSlow THEN Append(al1, BackToNormalLine(r)) ELSE al1
        /\ UNCHANGED <<slowAlerts, hasDown>>

\* variant of UpBranch: the down-recovery is decided by the down-since entry
\* alone
UpBranch_AnyDownSince(r) ==
    LET wasDown == Has(downSince, r.url)
        wasSlow == PrevIs(previousState, r.url, "slow")
        rec1 == IF wasDown
                THEN Append(recoveries, DownRecovery(r, downSince, now))
                ELSE recoveries
        al1 == IF wasDown THEN Append(alerts, RecoveredLine(r)) ELSE alerts
    IN  /\ downSince' = IF wasDown THEN Delete(downSince, r.url) ELSE downSince
        /\ recoveries' = IF wasSlow THEN Append(rec1, SlowRecovery(r, now))
                         ELSE rec1
        /\ alerts' = IF wasSlow THEN Append(al1, BackToNormalLine(r)) ELSE al1
        /\ UNCHANGED <<slowAlerts, hasDown>>

\* variant of UpBranch: a down-recovery empties the whole down-since map
UpBranch_ClearAll(r) ==
    LET wasDown == PrevIs(previousState, r.url, "down") /\ Has(downSince, r.url)
        wasSlow == PrevIs(previousState, r.url, "slow")
        rec1 == IF wasDown
                THEN Append(recoveries, DownRecovery(r, downSince, now))
                ELSE recoveries
        al1 == IF wasDown THEN Append(alerts, RecoveredLine(r)) ELSE alerts
    IN  /\ downSince' = IF wasDown THEN EmptyMap ELSE downSince
        /\ recoveries' = IF wasSlow THEN Append(rec1, SlowRecovery(r, now))
                         ELSE rec1
        /\ alerts' = IF wasSlow THEN Append(al1, BackToNormalLine(r)) ELSE al1
        /\ UNCHANGED <<slowAlerts, hasDown>>

\* r.status === "up"
UpBranch(r) ==
    LET wasDown == PrevIs(previousState, r.url, "down") /\ Has(downSince, r.url)
        wasSlow == PrevIs(previousState, r.url, "slow")
        rec1 == IF wasDown
                THEN Append(recoveries, DownRecovery(r, downSince, now))
                ELSE recoveries
        al1 == IF wasDown THEN Append(alerts, RecoveredLine(r)) ELSE alerts
    IN  /\ downSince' = IF wasDown THEN Delete(downSince, r.url) ELSE downSince
        /\ recoveries' = IF wasSlow THEN Append(rec1, SlowRecovery(r, now))
                         ELSE rec1
        /\ alerts' = IF wasSlow THEN Append(al1, BackToNormalLine(r)) ELSE al1
        /\ UNCHANGED <<slowAlerts, hasDown>>

\* variant of SlowBranch: the structured record is pushed for every new slow
\* state, not only for up -> slow
SlowBranch_AnyNew(r) ==
    LET newSlow == ~PrevIs(previousState, r.url, "slow")
    IN  /\ alerts' = IF newSlow THEN Append(alerts, SlowLine(r)) ELSE alerts
        /\ slowAlerts' = IF newSlow
                         THEN Append(slowAlerts, SlowAlert(r, now))
                         ELSE slowAlerts
        /\ UNCHANGED <<downSince, recoveries, hasDown>>

\* variant of SlowBranch: the alert line is pushed on every Slow observation
SlowBranch_EveryTime(r) ==
    LET fromUp == PrevIs(previousState, r.url, "up")
    IN  /\ alerts' = Append(alerts, SlowLine(r))
        /\ slowAlerts' = IF fromUp
                         THEN Append(slowAlerts, SlowAlert(r, now))
                         ELSE slowAlerts
        /\ UNCHANGED <<downSince, recoveries, hasDown>>

\* r.status === "slow"
SlowBranch(r) ==
    LET newSlow == ~PrevIs(previousState, r.url, "slow")
        fromUp == PrevIs(previousState, r.url, "up")
    IN  /\ alerts' = IF newSlow THEN Append(alerts, SlowLine(r)) ELSE alerts
        /\ slowAlerts' = IF newSlow /\ fromUp
                         THEN Append(slowAlerts, SlowAlert(r, now))
                         ELSE slowAlerts
        /\ UNCHANGED <<downSince, recoveries, hasDown>>

\* variant of DownBranch: hasDown is raised only together with the alert
DownBranch_FlagOnAlert(r) ==
    /\ hasDown' = IF ~PrevIs(previousState, r.url, "down") THEN TRUE ELSE hasDown
    /\ alerts' = IF ~PrevIs(previousState, r.url, "down")
                 THEN Append(alerts, DownLine(r))
                 ELSE alerts
    /\ downSince' = IF ~Has(downSince, r.url)
                    THEN Put(downSince, r.url, toISOString(now))
                    ELSE downSince
    /\ UNCHANGED <<recoveries, slowAlerts>>

\* variant of DownBranch: the alert line is pushed on every Down observation
DownBranch_AlwaysAlert(r) ==
    /\ hasDown' = TRUE
    /\ alerts' = Append(alerts, DownLine(r))
    /\ downSince' = IF ~Has(downSince, r.url)
                    THEN Put(downSince, r.url, toISOString(now))
                    ELSE downSince
    /\ UNCHANGED <<recoveries, slowAlerts>>

\* variant of DownBranch: the time stamp is written on every Down observation
DownBranch_Overwrite(r) ==
    /\ hasDown' = TRUE
    /\ alerts' = IF ~PrevIs(previousState, r.url, "down")
                 THEN Append(alerts, DownLine(r))
                 ELSE alerts
    /\ downSince' = Put(downSince, r.url, toISOString(now))
    /\ UNCHANGED <<recoveries, slowAlerts>>

\* variant of DownBranch: the time stamp is written only with the alert
DownBranch_OnTransition(r) ==
    /\ hasDown' = TRUE
    /\ alerts' = IF ~PrevIs(previousState, r.url, "down")
                 THEN Append(alerts, DownLine(r))
                 ELSE alerts
    /\ downSince' = IF ~PrevIs(previousState, r.url, "down")
                       /\ ~Has(downSince, r.url)
                    THEN Put(downSince, r.url, toISOString(now))
                    ELSE downSince
    /\ UNCHANGED <<recoveries, slowAlerts>>

\* r.status === "down"
DownBranch(r) ==
    /\ hasDown' = TRUE
    /\ alerts' = IF ~PrevIs(previousState, r.url, "down")
                 THEN Append(alerts, DownLine(r))
                 ELSE alerts
    /\ downSince' = IF ~Has(downSince, r.url)
                    THEN Put(downSince, r.url, toISOString(now))
                    ELSE downSince
    /\ UNCHANGED <<recoveries, slowAlerts>>

ProcessResult ==
    /\ pc = "loop"
    /\ idx <= Len(results)
    /\ LET r == results[idx]
       IN  /\ CASE r.status = "up" -> UpBranch(r)
                [] r.status = "slow" -> SlowBranch(r)
                [] r.status = "down" -> DownBranch(r)
           /\ previousState' = Put(previousState, r.url, r.status)
    /\ idx' = idx + 1
    /\ UNCHANGED <<pureVars, fetched, settleOrder, sites, diskVars, clock,
                   pc, probes, results, now, checkedUrls, prunedState,
                   prunedDownSince, stderr, exitCode, history, runs, faults>>

(***************************************************************************)
(* After the loop: prune to the checked URLs, persist, report, signal.     *)
(***************************************************************************)
\* variant of PruneTo: nothing is dropped
PruneTo_KeepAll(m, urls) == m

PruneTo(m, urls) == [u \in (DOMAIN m) \cap urls |-> m[u]]

\* variant of Prune: a run with a Down outcome goes straight to the exit
Prune_ExitOnDown ==
    /\ pc = "loop"
    /\ idx > Len(results)
    /\ prunedState' = PruneTo(previousState, checkedUrls)
    /\ prunedDownSince' = PruneTo(downSince, checkedUrls)
    /\ pc' = IF hasDown THEN "signal" ELSE "writeState"
    /\ UNCHANGED <<pureVars, fetched, settleOrder, sites, diskVars, clock,
                   previousState, downSince, probes, results, now,
                   checkedUrls, idx, hasDown, alerts, recoveries, slowAlerts,
                   stderr, exitCode, history, runs, faults>>

Prune ==
    /\ pc = "loop"
    /\ idx > Len(results)
    /\ prunedState' = PruneTo(previousState, checkedUrls)
    /\ prunedDownSince' = PruneTo(downSince, checkedUrls)
    /\ pc' = "writeState"
    /\ UNCHANGED <<pureVars, fetched, settleOrder, sites, diskVars, clock,
                   previousState, downSince, probes, results, now,
                   checkedUrls, idx, hasDown, alerts, recoveries, slowAlerts,
                   stderr, exitCode, history, runs, faults>>

WriteState ==
    /\ pc = "writeState"
    /\ stateDoc' = ObjectDoc(prunedState)
    /\ pc' = "writeDownSince"
    /\ UNCHANGED <<pureVars, fetched, settleOrder, sites, downSinceDoc,
                   recoveryReportDoc, slowAlertReportDoc, clock,
                   previousState, downSince, probes, results, runLocals,
                   stderr, exitCode, history, runs, faults>>

WriteDownSince ==
    /\ pc = "writeDownSince"
    /\ downSinceDoc' = ObjectDoc(prunedDownSince)
    /\ pc' = "writeReports"
    /\ UNCHANGED <<pureVars, fetched, settleOrder, sites, stateDoc,
                   recoveryReportDoc, slowAlertReportDoc, clock,
                   previousState, downSince, probes, results, runLocals,
                   stderr, exitCode, history, runs, faults>>

WriteReports ==
    /\ pc = "writeReports"
    /\ recoveryReportDoc' = IF Len(recoveries) > 0
                            THEN ObjectDoc(recoveries)
                            ELSE recoveryReportDoc
    /\ slowAlertReportDoc' = IF Len(slowAlerts) > 0
                             THEN ObjectDoc(slowAlerts)
                             ELSE slowAlertReportDoc
    /\ pc' = "printAlerts"
    /\ UNCHANGED <<pureVars, fetched, settleOrder, sites, stateDoc,
                   downSinceDoc, clock, previousState, downSince, probes,
                   results, runLocals, stderr, exitCode, history, runs,
                   faults>>

PrintAlerts ==
    /\ pc = "printAlerts"
    /\ stderr' = IF Len(alerts) > 0 THEN <<"ALERTS:">> \o alerts ELSE stderr
    /\ pc' = "signal"
    /\ UNCHANGED <<pureVars, fetched, settleOrder, sites, diskVars, clock,
                   previousState, downSince, probes, results, runLocals,
                   exitCode, history, runs, faults>>

Signal ==
    /\ pc = "signal"
    /\ exitCode' = IF hasDown THEN 1 ELSE 0
    /\ pc' = "exited"
    /\ UNCHANGED <<pureVars, fetched, settleOrder, sites, diskVars, clock,
                   previousState, downSince, probes, results, runLocals,
                   stderr, history, runs, faults>>

(***************************************************************************)
(* The process is gone: its memory is released, what stays is the disk and *)
(* the exit code it reported.                                              *)
(***************************************************************************)
Reap ==
    /\ pc = "exited"
    /\ pc' = "idle"
    /\ lastRunDown' = {results[i].url :
                         i \in {j \in 1..Len(results) :
                                  results[j].status = "down"}}
    /\ lastRunStatus' = [u \in {results[i].url : i \in 1..Len(results)} |->
                           results[CHOOSE i \in 1..Len(results) :
                                     results[i].url = u].status]
    /\ prevSnapshot' = EmptyMap
    /\ prevDownSince' = EmptyMap
    /\ loadedKinds' = [state |-> "missing", downSince |-> "missing"]
    /\ sites' = <<>>
    /\ previousState' = EmptyMap
    /\ downSince' = EmptyMap
    /\ probes' = <<>>
    /\ results' = <<>>
    /\ fetched' = <<>>
    /\ now' = 0
    /\ checkedUrls' = {}
    /\ idx' = 0
    /\ hasDown' = FALSE
    /\ alerts' = <<>>
    /\ recoveries' = <<>>
    /\ slowAlerts' = <<>>
    /\ prunedState' = EmptyMap
    /\ prunedDownSince' = EmptyMap
    /\ stderr' = <<>>
    /\ UNCHANGED <<pureVars, settleOrder, diskVars, clock, exitCode, runs,
                   faults>>

Next ==
    \/ Reap
    \/ StateDocFault
    \/ DownSinceDocFault
    \/ Launch
    \/ FanOut
    \/ ProbeSettle
    \/ Join
    \/ RunBegin
    \/ ProcessResult
    \/ Prune
    \/ WriteState
    \/ WriteDownSince
    \/ WriteReports
    \/ PrintAlerts
    \/ Signal

Spec == Init /\ [][Next]_vars

(***************************************************************************)
(* checkOne applied on its own to one URL and one behaviour of fetch: a    *)
(* response (ok or not) after some latency, an abort by the TIMEOUT timer, *)
(* or another rejection.                                                   *)
(***************************************************************************)
ProbeLatencies == {0, 120, 1999, 2000, 2001, 2500, 9999}

ProbeInputs ==
    [kind : {"ok"}, elapsed : ProbeLatencies, code : {200, 204}, message : {""}]
    \cup [kind : {"http"}, elapsed : ProbeLatencies, code : {404, 500, 503},
          message : {""}]
    \cup [kind : {"abort"}, elapsed : {TIMEOUT, TIMEOUT + 1}, code : {0},
          message : {""}]
    \cup [kind : {"error"}, elapsed : {0, 120, 2500}, code : {0},
          message : ErrorMessages]

InitCheckOne ==
    /\ ProgramInit
    /\ \E u \in Urls, f \in ProbeInputs :
          call = [fn |-> "checkOne", url |-> u, f |-> f]
    /\ ret = NoCall

CheckOneStep ==
    /\ call.fn = "checkOne"
    /\ ret = NoCall
    /\ ret' = [fn |-> "checkOne", value |-> checkOne(call.url, call.f)]
    /\ UNCHANGED <<progVars, call>>

SpecCheckOne == InitCheckOne /\ [][CheckOneStep]_vars

(***************************************************************************)
(* formatDuration applied on its own to a duration in ms.                  *)
(***************************************************************************)
DurationSeconds == {0, 1, 2, 45, 59, 60, 61, 62, 90, 119, 120, 121,
                    3599, 3600, 3601, 3661}

DurationInputs == {k * 1000 + d : k \in DurationSeconds, d \in {0, 1, 500, 999}}

InitDuration ==
    /\ ProgramInit
    /\ \E ms \in DurationInputs : call = [fn |-> "formatDuration", ms |-> ms]
    /\ ret = NoCall

FormatDurationStep ==
    /\ call.fn = "formatDuration"
    /\ ret = NoCall
    /\ ret' = [fn |-> "formatDuration", value |-> formatDuration(call.ms)]
    /\ UNCHANGED <<progVars, call>>

SpecDuration == InitDuration /\ [][FormatDurationStep]_vars

(***************************************************************************)
(* Vocabulary of the properties.                                           *)
(***************************************************************************)
\* the process has run to its end
Finished == pc = "exited"

\* ... and both documents on disk are the ones it wrote
Written ==
    /\ Finished
    /\ stateDoc.kind = "object"
    /\ downSinceDoc.kind = "object"

Checked(u) == \E i \in 1..Len(results) : results[i].url = u

Outcome(u) == results[CHOOSE i \in 1..Len(results) : results[i].url = u]

Observed(u, s) == Checked(u) /\ Outcome(u).status = s

RecoveriesOf(u, from) ==
    {i \in 1..Len(recoveries) :
        recoveries[i].url = u /\ recoveries[i].recoveredFrom = from}

AllRecoveriesOf(u) == {i \in 1..Len(recoveries) : recoveries[i].url = u}

LinesOf(u) == {i \in 1..Len(alerts) : alerts[i].url = u}

LinesOfKind(u, k) == {i \in LinesOf(u) : alerts[i].kind = k}

SlowAlertsOf(u) == {i \in 1..Len(slowAlerts) : slowAlerts[i].url = u}

\* obj[u] is the same in two maps: missing in both or equal in both
SameEntry(m1, m2, u) ==
    /\ Has(m1, u) <=> Has(m2, u)
    /\ Has(m1, u) => m1[u] = m2[u]

(***************************************************************************)
(* C1 as stated: whenever the loaded snapshot says Down for a URL and the  *)
(* run observes it Up, the run produces exactly one recovery record with   *)
(* recoveredFrom = "down" for it, the record's durationMs is now minus the *)
(* stored down-since time, and the URL is absent from the down-since       *)
(* document the run writes.                                                *)
(***************************************************************************)
C1_Original ==
    \A u \in Urls :
        (Written /\ PrevIs(prevSnapshot, u, "down") /\ Observed(u, "up"))
        => /\ Cardinality(RecoveriesOf(u, "down")) = 1
           /\ \A i \in RecoveriesOf(u, "down") :
                 /\ Has(prevDownSince, u)
                 /\ recoveries[i].durationMs = now - getTime(prevDownSince[u])
           /\ ~Has(downSinceDoc.map, u)

(***************************************************************************)
(* C1 amended: the same, for a URL that also has a down-since entry in the *)
(* loaded down-since document.                                             *)
(***************************************************************************)
C1_DownRecovery ==
    \A u \in Urls :
        (Written /\ PrevIs(prevSnapshot, u, "down") /\ Has(prevDownSince, u)
           /\ Observed(u, "up"))
        => /\ Cardinality(RecoveriesOf(u, "down")) = 1
           /\ \A i \in RecoveriesOf(u, "down") :
                 recoveries[i].durationMs = now - getTime(prevDownSince[u])
           /\ ~Has(downSinceDoc.map, u)

C1_Witness ==
    \E u \in Urls :
        /\ Written /\ PrevIs(prevSnapshot, u, "down") /\ Has(prevDownSince, u)
        /\ Observed(u, "up")
        /\ \E i \in RecoveriesOf(u, "down") : recoveries[i].durationMs > 0

(***************************************************************************)
(* C2 as stated, over histories in which no document was lost: after a     *)
(* run, a URL has an entry in the persisted down-since document if and     *)
(* only if its entry in the persisted status document is Down.             *)
(***************************************************************************)
C2_Original ==
    (Written /\ faults = 0)
    => \A u \in Urls :
          Has(downSinceDoc.map, u) <=> PrevIs(stateDoc.map, u, "down")

(***************************************************************************)
(* C3 as stated, over histories in which no document was lost: when a run  *)
(* at time T observes Down for a URL whose loaded snapshot status is not   *)
(* Down (or missing), the persisted down-since entry of the URL is T.      *)
(***************************************************************************)
C3_Original ==
    \A u \in Urls :
        (Written /\ faults = 0 /\ ~PrevIs(prevSnapshot, u, "down")
           /\ Observed(u, "down"))
        => /\ Has(downSinceDoc.map, u)
           /\ downSinceDoc.map[u] = toISOString(now)

(***************************************************************************)
(* C4 as stated: when the loaded snapshot says Down for a URL and the run  *)
(* observes it Down again, the URL's entry in the down-since document      *)
(* after the run is identical to its entry before the run.                 *)
(***************************************************************************)
C4_Original ==
    \A u \in Urls :
        (Written /\ PrevIs(prevSnapshot, u, "down") /\ Observed(u, "down"))
        => SameEntry(downSinceDoc.map, prevDownSince, u)

(***************************************************************************)
(* C4 amended: when the loaded snapshot says Down for a URL, the loaded    *)
(* down-since document has an entry for it and the run observes it Down    *)
(* again, that entry is the same after the run; when the loaded document   *)
(* has no entry for it, the entry after the run is the time of the run.    *)
(***************************************************************************)
C4_StillDown ==
    \A u \in Urls :
        (Written /\ PrevIs(prevSnapshot, u, "down") /\ Observed(u, "down"))
        => /\ Has(downSinceDoc.map, u)
           /\ downSinceDoc.map[u] = IF Has(prevDownSince, u)
                                    THEN prevDownSince[u]
                                    ELSE toISOString(now)

C4_Witness ==
    \E u \in Urls :
        /\ Written /\ PrevIs(prevSnapshot, u, "down") /\ Observed(u, "down")
        /\ Has(prevDownSince, u)
        /\ getTime(prevDownSince[u]) < now
        /\ downSinceDoc.map[u] = prevDownSince[u]

(***************************************************************************)
(* C5 as stated: for a URL with no entry in the loaded snapshot, a Down    *)
(* outcome produces a Down alert line, and an Up or a Slow outcome         *)
(* produces no alert line, no recovery record and no structured slow       *)
(* alert.                                                                  *)
(***************************************************************************)
C5_Original ==
    \A u \in Urls :
        (Finished /\ ~Has(prevSnapshot, u) /\ Checked(u))
        => /\ Observed(u, "down") => LinesOfKind(u, "DOWN") # {}
           /\ (Observed(u, "up") \/ Observed(u, "slow"))
                => /\ LinesOf(u) = {}
                   /\ AllRecoveriesOf(u) = {}
                   /\ SlowAlertsOf(u) = {}

(***************************************************************************)
(* C5 amended: for a URL with no entry in the loaded snapshot, a Down      *)
(* outcome produces a Down alert line; an Up outcome produces no alert     *)
(* line, no recovery record and no structured slow alert; a Slow outcome   *)
(* produces the generic SLOW alert line and nothing else: no recovery      *)
(* record and no structured slow alert.                                    *)
(***************************************************************************)
C5_FirstSight ==
    \A u \in Urls :
        (Finished /\ ~Has(prevSnapshot, u) /\ Checked(u))
        => /\ Observed(u, "down") => LinesOfKind(u, "DOWN") # {}
           /\ Observed(u, "up")
                => /\ LinesOf(u) = {}
                   /\ AllRecoveriesOf(u) = {}
                   /\ SlowAlertsOf(u) = {}
           /\ Observed(u, "slow")
                => /\ Cardinality(LinesOf(u)) = 1
                   /\ LinesOfKind(u, "SLOW") = LinesOf(u)
                   /\ AllRecoveriesOf(u) = {}
                   /\ SlowAlertsOf(u) = {}

C5_Witness ==
    \E u, v \in Urls :
        /\ Finished /\ u # v
        /\ ~Has(prevSnapshot, u) /\ ~Has(prevSnapshot, v)
        /\ Has(prevDownSince, v)
        /\ Observed(u, "slow") /\ Observed(v, "up")
        /\ LinesOfKind(u, "SLOW") # {}
        /\ LinesOf(v) = {}

(***************************************************************************)
(* C6: after a run, the persisted status document has exactly the URLs of  *)
(* the run's outcomes, each with the status observed in the run, and the   *)
(* persisted down-since document has only URLs of the run's outcomes; a    *)
(* URL of the loaded documents that the run did not check is in neither.   *)
(***************************************************************************)
C6_Pruned ==
    Written
    => /\ DOMAIN stateDoc.map = checkedUrls
       /\ checkedUrls = {u \in Urls : Checked(u)}
       /\ \A u \in checkedUrls : stateDoc.map[u] = Outcome(u).status
       /\ DOMAIN downSinceDoc.map \subseteq checkedUrls
       /\ \A x \in (DOMAIN prevSnapshot \cup DOMAIN prevDownSince) \ checkedUrls :
             ~Has(stateDoc.map, x) /\ ~Has(downSinceDoc.map, x)

C6_Witness ==
    \E x \in Urls, u \in Urls :
        /\ Written
        /\ Has(prevSnapshot, x) /\ Has(prevDownSince, x) /\ ~Checked(x)
        /\ Checked(u)
        /\ ~Has(stateDoc.map, x) /\ ~Has(downSinceDoc.map, x)

(***************************************************************************)
(* C7: the process ends with exit code 1 if and only if some outcome of    *)
(* the run is Down, and with exit code 0 otherwise.                        *)
(***************************************************************************)
C7_ExitSignal ==
    Finished
    => /\ exitCode \in {0, 1}
       /\ exitCode = 1 <=> \E i \in 1..Len(results) : results[i].status = "down"

C7_Witness ==
    /\ Finished
    /\ exitCode = 1
    /\ alerts = <<>> /\ recoveries = <<>> /\ slowAlerts = <<>>
    /\ \E u \in Urls : PrevIs(prevSnapshot, u, "down") /\ Observed(u, "down")

(***************************************************************************)
(* C8: a run emits a Down alert line for a URL if and only if it observes  *)
(* the URL Down and the loaded snapshot status of the URL is not Down      *)
(* (missing included), and it emits at most one; a URL that was Down in    *)
(* the run that wrote the loaded snapshot and is Down again gets no Down   *)
(* alert line.                                                             *)
(***************************************************************************)
C8_DownAlert ==
    Finished
    => \A u \in Urls :
          /\ LinesOfKind(u, "DOWN") # {}
               <=> (Observed(u, "down") /\ ~PrevIs(prevSnapshot, u, "down"))
          /\ Cardinality(LinesOfKind(u, "DOWN")) <= 1
          /\ (u \in lastRunDown /\ Observed(u, "down"))
               => LinesOfKind(u, "DOWN") = {}

C8_Witness ==
    \E u, v \in Urls :
        /\ Finished
        /\ u \in lastRunDown /\ Observed(u, "down")
        /\ LinesOfKind(u, "DOWN") = {}
        /\ v \notin lastRunDown /\ Observed(v, "down")
        /\ LinesOfKind(v, "DOWN") # {}

(***************************************************************************)
(* C9: for a URL observed Slow, the run emits the generic SLOW alert line  *)
(* if and only if the loaded snapshot status is not Slow, and adds a       *)
(* structured slow alert (url, timeMs, detectedAt) if and only if the      *)
(* loaded snapshot status is Up.                                           *)
(***************************************************************************)
C9_SlowAlert ==
    \A u \in Urls :
        (Finished /\ Observed(u, "slow"))
        => /\ LinesOfKind(u, "SLOW") # {} <=> ~PrevIs(prevSnapshot, u, "slow")
           /\ LinesOf(u) = LinesOfKind(u, "SLOW")
           /\ Cardinality(LinesOf(u)) <= 1
           /\ SlowAlertsOf(u) # {} <=> PrevIs(prevSnapshot, u, "up")
           /\ Cardinality(SlowAlertsOf(u)) <= 1
           /\ \A i \in SlowAlertsOf(u) :
                 slowAlerts[i] = [url |-> u, timeMs |-> Outcome(u).timeMs,
                                  detectedAt |-> formatIST(toISOString(now))]

C9_Witness ==
    \E u \in Urls :
        /\ Finished /\ Observed(u, "slow")
        /\ PrevIs(prevSnapshot, u, "down")
        /\ LinesOfKind(u, "SLOW") # {}
        /\ SlowAlertsOf(u) = {}

(***************************************************************************)
(* C10: for a URL observed Up, if the loaded snapshot status is Slow the   *)
(* run emits exactly one recovery record for it, with recoveredFrom =      *)
(* "slow" and the fields url, recoveredFrom and resolvedAt only; if the    *)
(* loaded snapshot status is Up or missing it emits no recovery record     *)
(* and no alert line for it.                                               *)
(***************************************************************************)
C10_UpRecovery ==
    \A u \in Urls :
        (Finished /\ Observed(u, "up"))
        => /\ PrevIs(prevSnapshot, u, "slow")
                => /\ Cardinality(AllRecoveriesOf(u)) = 1
                   /\ \A i \in AllRecoveriesOf(u) :
                         /\ recoveries[i].recoveredFrom = "slow"
                         /\ DOMAIN recoveries[i]
                              = {"url", "recoveredFrom", "resolvedAt"}
           /\ (PrevIs(prevSnapshot, u, "up") \/ ~Has(prevSnapshot, u))
                => /\ AllRecoveriesOf(u) = {}
                   /\ LinesOf(u) = {}

C10_Witness ==
    \E u \in Urls :
        /\ Finished /\ Observed(u, "up")
        /\ PrevIs(prevSnapshot, u, "slow")
        /\ Has(prevDownSince, u)
        /\ Cardinality(AllRecoveriesOf(u)) = 1

(***************************************************************************)
(* C11: checkOne returns a classified outcome for whatever fetch does: an  *)
(* abort at the timeout is Down with reason "Timeout", a non-success       *)
(* response is Down with reason "HTTP <code>" whatever its latency, any    *)
(* other failure is Down with the error's message, and a successful        *)
(* response is Slow exactly when its latency is strictly greater than      *)
(* SLOW_THRESHOLD, and otherwise Up with a null reason.                    *)
(***************************************************************************)
C11_Classified ==
    ret.fn = "checkOne"
    => LET f == call.f
           r == ret.value
       IN  /\ r.url = call.url
           /\ r.timeMs = f.elapsed
           /\ r.status \in {"up", "slow", "down"}
           /\ f.kind = "abort" => r.status = "down" /\ r.reason = "Timeout"
           /\ f.kind = "http"
                => /\ r.status = "down"
                   /\ f.code = 404 => r.reason = "HTTP 404"
                   /\ f.code = 500 => r.reason = "HTTP 500"
                   /\ f.code = 503 => r.reason = "HTTP 503"
           /\ f.kind = "error" => r.status = "down" /\ r.reason = f.message
           /\ f.kind = "ok"
                => /\ r.status = "slow" <=> f.elapsed > SLOW_THRESHOLD
                   /\ r.status # "slow" => r.status = "up" /\ r.reason = "null"
                   /\ f.elapsed = 2500 => r.reason = "Slow (2500ms)"
                   /\ f.elapsed = 2001 => r.reason = "Slow (2001ms)"

C11_Witness ==
    /\ ret.fn = "checkOne"
    /\ call.f.kind = "ok"
    /\ call.f.elapsed = SLOW_THRESHOLD
    /\ ret.value.status = "up"
    /\ ret.value.reason = "null"

(***************************************************************************)
(* C16: for a duration of ms milliseconds, with total = floor(ms/1000),    *)
(* s = total mod 60 and m = floor(total/60), formatDuration returns        *)
(* "<m> minute(s) and <s> second(s)" when m >= 1 and s > 0, "<m>           *)
(* minute(s)" when m >= 1 and s = 0, and "<total> second(s)" when m = 0;   *)
(* the unit is singular exactly for a count of 1, and there is no hour     *)
(* unit: an hour is "60 minutes".                                          *)
(***************************************************************************)
Counted(n, unit) ==
    IF n = 1 THEN "1 " \o unit ELSE ToString(n) \o " " \o unit \o "s"

DurationText(ms) ==
    LET total == ms \div 1000
        s == total % 60
        m == total \div 60
    IN  CASE m >= 1 /\ s > 0 ->
               Counted(m, "minute") \o " and " \o Counted(s, "second")
          [] m >= 1 /\ s = 0 -> Counted(m, "minute")
          [] m = 0 -> Counted(total, "second")

C16_FormatDuration ==
    ret.fn = "formatDuration"
    => /\ ret.value = DurationText(call.ms)
       /\ call.ms = 90000 => ret.value = "1 minute and 30 seconds"
       /\ call.ms = 45000 => ret.value = "45 seconds"
       /\ call.ms = 60000 => ret.value = "1 minute"
       /\ call.ms = 999 => ret.value = "0 seconds"
       /\ call.ms = 1999 => ret.value = "1 second"
       /\ call.ms = 61000 => ret.value = "1 minute and 1 second"
       /\ call.ms = 3600000 => ret.value = "60 minutes"
       /\ call.ms = 3661999 => ret.value = "61 minutes and 1 second"

C16_Witness ==
    /\ ret.fn = "formatDuration"
    /\ call.ms = 90000
    /\ ret.value = "1 minute and 30 seconds"

(***************************************************************************)
(* C12: when the status document found at start-up is missing, unparseable *)
(* or not an object, the invocation runs with an empty previous snapshot   *)
(* and ends with an ordinary exit code; every URL is then new: the run     *)
(* emits no recovery record and no recovery line, whatever the down-since  *)
(* document contains.                                                      *)
(***************************************************************************)
C12_CorruptStatus ==
    loadedKinds.state # "object"
    => /\ prevSnapshot = EmptyMap
       /\ Finished
            => /\ exitCode \in {0, 1}
               /\ recoveries = <<>>
               /\ \A i \in 1..Len(alerts) : alerts[i].kind \in {"DOWN", "SLOW"}
               /\ slowAlerts = <<>>

C12_Witness ==
    \E u \in Urls :
        /\ Finished
        /\ loadedKinds.state = "corrupt"
        /\ Has(prevDownSince, u)
        /\ Observed(u, "up")
        /\ recoveries = <<>>

(***************************************************************************)
(* C13 as stated: after a run, the recovery report document exists only if *)
(* that run produced a recovery, the slow-alert report document exists     *)
(* only if that run produced a structured slow alert, and a report that    *)
(* exists holds exactly that run's records.                                *)
(***************************************************************************)
C13_Original ==
    Finished
    => /\ recoveryReportDoc.kind = "object"
            => recoveries # <<>> /\ recoveryReportDoc.map = recoveries
       /\ slowAlertReportDoc.kind = "object"
            => slowAlerts # <<>> /\ slowAlertReportDoc.map = slowAlerts

(***************************************************************************)
(* C17: at the step that produces the run outcome signal, exit code 1      *)
(* included, the pruned status and down-since documents and every          *)
(* non-empty report of the run are already on disk; and a report is        *)
(* written only after both state documents.                                *)
(***************************************************************************)
StatePersisted ==
    /\ stateDoc = ObjectDoc(PruneTo(previousState, checkedUrls))
    /\ downSinceDoc = ObjectDoc(PruneTo(downSince, checkedUrls))

ReportsPersisted ==
    /\ recoveries # <<>> => recoveryReportDoc = ObjectDoc(recoveries)
    /\ slowAlerts # <<>> => slowAlertReportDoc = ObjectDoc(slowAlerts)

C17_PersistBeforeSignal ==
    [][/\ (exitCode = -1 /\ exitCode' # -1)
            => StatePersisted /\ ReportsPersisted
       /\ (recoveryReportDoc' # recoveryReportDoc
             \/ slowAlertReportDoc' # slowAlertReportDoc)
            => StatePersisted]_vars

C17_Witness ==
    /\ Finished
    /\ exitCode = 1
    /\ recoveries # <<>>
    /\ stateDoc.kind = "object"
    /\ stateDoc.map # prevSnapshot
    /\ StatePersisted
    /\ ReportsPersisted

(***************************************************************************)
(* C18: after a run, every URL whose persisted status is Down has an entry *)
(* in the persisted down-since document, also when the status document     *)
(* found at start-up said Down and the down-since document was unusable.   *)
(***************************************************************************)
C18_DownHasSince ==
    Written
    => \A u \in Urls :
          PrevIs(stateDoc.map, u, "down") => Has(downSinceDoc.map, u)

C18_Witness ==
    \E u \in Urls :
        /\ Written
        /\ loadedKinds.downSince = "corrupt"
        /\ PrevIs(prevSnapshot, u, "down")
        /\ Observed(u, "down")
        /\ Has(downSinceDoc.map, u)
        /\ downSinceDoc.map[u] = toISOString(now)

(***************************************************************************)
(* C14: checkSites starts every probe before it awaits any; a pending      *)
(* probe can settle whatever the state of the others; run() starts only    *)
(* when every probe has settled, with the outcomes in the order of the URL *)
(* list, and its loop handles them one at a time in that order.            *)
(***************************************************************************)
Probing == pc \in {"checkSites", "awaitAll"}

Joined == pc \in {"run", "loop", "writeState", "writeDownSince",
                  "writeReports", "printAlerts", "signal", "exited"}

SitePos(u) == CHOOSE i \in 1..Len(sites) : sites[i] = u

C14_FanOutJoin ==
    /\ pc = "awaitAll"
         => /\ Len(probes) = Len(sites)
            /\ \A i \in 1..Len(sites) :
                  /\ probes[i].url = sites[i]
                  /\ probes[i].status = "pending" => ENABLED ProbeSettleAt(i)
    /\ Probing
         => /\ previousState = prevSnapshot
            /\ downSince = prevDownSince
            /\ results = <<>> /\ alerts = <<>>
    /\ Joined
         => /\ Len(results) = Len(sites)
            /\ \A i \in 1..Len(sites) :
                  /\ probes[i].status # "pending"
                  /\ results[i] = probes[i]
                  /\ results[i].url = sites[i]
    /\ pc = "loop"
         => /\ \A j \in 1..Len(results) :
                  IF j < idx
                  THEN PrevIs(previousState, results[j].url, results[j].status)
                  ELSE SameEntry(previousState, prevSnapshot, results[j].url)
            /\ \A a, b \in 1..Len(alerts) :
                  a < b => /\ SitePos(alerts[a].url) <= SitePos(alerts[b].url)
                           /\ SitePos(alerts[b].url) < idx

C14_Witness ==
    /\ pc = "awaitAll"
    /\ Len(probes) = 2
    /\ probes[1].status = "pending"
    /\ probes[2].status = "slow"
    /\ ENABLED ProbeSettleAt(1)

(***************************************************************************)
(* What one URL contributes to a run, as a function of its own outcome r,  *)
(* its own previous status prev ("absent" when it has none), its own       *)
(* previous down-since entry since, and the time t of the run.             *)
(***************************************************************************)
PrevOf(m, u) == IF Has(m, u) THEN m[u] ELSE "absent"

SinceOf(m, u) ==
    IF Has(m, u) THEN [has |-> TRUE, at |-> m[u]]
    ELSE [has |-> FALSE, at |-> toISOString(0)]

UrlEffect(r, prev, since, t) ==
    LET own == [x \in {r.url} |-> since.at]
        none == [has |-> FALSE, at |-> toISOString(0)]
    IN  CASE r.status = "up" /\ prev = "down" /\ since.has ->
               [lines |-> <<RecoveredLine(r)>>,
                recoveries |-> <<DownRecovery(r, own, t)>>,
                slowAlerts |-> <<>>, since |-> none]
          [] r.status = "up" /\ prev = "slow" ->
               [lines |-> <<BackToNormalLine(r)>>,
                recoveries |-> <<SlowRecovery(r, t)>>,
                slowAlerts |-> <<>>, since |-> since]
          [] r.status = "slow" /\ prev = "up" ->
               [lines |-> <<SlowLine(r)>>, recoveries |-> <<>>,
                slowAlerts |-> <<SlowAlert(r, t)>>, since |-> since]
          [] r.status = "slow" /\ prev \in {"down", "absent"} ->
               [lines |-> <<SlowLine(r)>>, recoveries |-> <<>>,
                slowAlerts |-> <<>>, since |-> since]
          [] r.status = "down" ->
               [lines |-> IF prev # "down" THEN <<DownLine(r)>> ELSE <<>>,
                recoveries |-> <<>>, slowAlerts |-> <<>>,
                since |-> IF since.has THEN since
                          ELSE [has |-> TRUE, at |-> toISOString(t)]]
          [] OTHER ->
               [lines |-> <<>>, recoveries |-> <<>>, slowAlerts |-> <<>>,
                since |-> since]

OwnEffect(u) ==
    UrlEffect(Outcome(u), PrevOf(prevSnapshot, u), SinceOf(prevDownSince, u),
              now)

About(seq, u) == SelectSeq(seq, LAMBDA e : e.url = u)

(***************************************************************************)
(* C15: for every URL of a batch, its outcome is the classification of its *)
(* own fetch, and its new status entry, its new down-since entry and the   *)
(* alert lines, recovery records and structured slow alerts about it are   *)
(* exactly those given by its own outcome and its own previous entries,    *)
(* whatever the other URLs of the batch did.                               *)
(***************************************************************************)
C15_Isolated ==
    Written
    => \A u \in Urls :
          Checked(u)
          => /\ Outcome(u) = checkOne(u, fetched[SitePos(u)])
             /\ stateDoc.map[u] = Outcome(u).status
             /\ SinceOf(downSinceDoc.map, u) = OwnEffect(u).since
             /\ About(alerts, u) = OwnEffect(u).lines
             /\ About(recoveries, u) = OwnEffect(u).recoveries
             /\ About(slowAlerts, u) = OwnEffect(u).slowAlerts

C15_Witness ==
    \E u, v \in Urls :
        /\ Written /\ u # v
        /\ Checked(u) /\ Checked(v)
        /\ SitePos(v) < SitePos(u)
        /\ fetched[SitePos(v)].kind \in {"abort", "error"}
        /\ Observed(v, "down")
        /\ PrevIs(prevSnapshot, v, "down") /\ Has(downSinceDoc.map, v)
        /\ PrevIs(prevSnapshot, u, "down") /\ Observed(u, "up")
        /\ Len(About(recoveries, u)) = 1
        /\ ~Has(downSinceDoc.map, u)

(***************************************************************************)
(* C19: a run that loads the documents written by the run before it,       *)
(* checks the same URLs and observes the same status for each of them      *)
(* emits no alert line, no recovery record and no structured slow alert,   *)
(* and writes status and down-since documents identical to the ones it     *)
(* loaded.                                                                 *)
(***************************************************************************)
RepeatedRun ==
    /\ loadedKinds.state = "object"
    /\ loadedKinds.downSince = "object"
    /\ DOMAIN lastRunStatus = {u \in Urls : Checked(u)}
    /\ \A u \in DOMAIN lastRunStatus : Outcome(u).status = lastRunStatus[u]

C19_Idempotent ==
    (Written /\ RepeatedRun)
    => /\ alerts = <<>>
       /\ recoveries = <<>>
       /\ slowAlerts = <<>>
       /\ stateDoc = ObjectDoc(prevSnapshot)
       /\ downSinceDoc = ObjectDoc(prevDownSince)

C19_Witness ==
    \E u, v \in Urls :
        /\ Written /\ RepeatedRun
        /\ Observed(u, "down") /\ Observed(v, "slow")
        /\ Has(downSinceDoc.map, u)
        /\ getTime(downSinceDoc.map[u]) < now
        /\ alerts = <<>>

(***************************************************************************)
(* C20: the outcome of a run is a function of the URL list, of what fetch  *)
(* did for each URL, of the loaded documents and of the time of the run,   *)
(* and not of the order in which the probes settled: the results are in    *)
(* the order of the URL list, and the alert lines, the records, the        *)
(* written documents and the exit code are those obtained by taking the    *)
(* URLs in list order.                                                     *)
(***************************************************************************)
SiteOutcome(i) == checkOne(sites[i], fetched[i])

SiteEffect(i) ==
    UrlEffect(SiteOutcome(i), PrevOf(prevSnapshot, sites[i]),
              SinceOf(prevDownSince, sites[i]), now)

RECURSIVE Gather(_, _)
Gather(i, field) ==
    IF i > Len(sites) THEN <<>>
    ELSE SiteEffect(i)[field] \o Gather(i + 1, field)

C20_OrderIndependent ==
    /\ Joined => /\ Len(results) = Len(sites)
                 /\ \A i \in 1..Len(sites) : results[i] = SiteOutcome(i)
    /\ Finished
         => /\ alerts = Gather(1, "lines")
            /\ recoveries = Gather(1, "recoveries")
            /\ slowAlerts = Gather(1, "slowAlerts")
            /\ exitCode = IF \E i \in 1..Len(sites) :
                                SiteOutcome(i).status = "down"
                          THEN 1 ELSE 0
    /\ Written
         => /\ DOMAIN stateDoc.map = Range(sites)
            /\ \A i \in 1..Len(sites) :
                  /\ stateDoc.map[sites[i]] = SiteOutcome(i).status
                  /\ SinceOf(downSinceDoc.map, sites[i]) = SiteEffect(i).since
            /\ DOMAIN downSinceDoc.map \subseteq Range(sites)

C20_Witness ==
    /\ pc = "run"
    /\ settleOrder = <<2, 1>>
    /\ results[1].url = sites[1]
    /\ results[2].url = sites[2]
    /\ results[1].status = "down"
    /\ results[2].status = "up"
    /\ fetched[1].kind = "abort"

====
